---- MODULE Spec2Model ----
(***************************************************************************)
(* xheap.py: an indexed binary heap (min or max) whose entries record      *)
(* their own array index, so that an entry can be removed or have its key  *)
(* changed in place.  HVal entries keep one position field; MultiHVal      *)
(* entries keep a dictionary from heap to position.                        *)
(*                                                                         *)
(* A "world" w is a record of everything the heap code reads and writes:   *)
(*   w.heap[h]    the list self.heap of heap h (a sequence of entries;     *)
(*                Python index i is TLA+ index i + 1)                     *)
(*   w.is_min[h]  the direction flag of heap h                            *)
(*   w.val[e]     the key e.val of entry e                                 *)
(*   w.hpos[e]    HVal.pos of an HVal entry e (an integer, -1 = absent)   *)
(*   w.mpos[e]    MultiHVal.pos of a MultiHVal entry e: a function whose  *)
(*                domain is the set of heaps that have a key in the dict  *)
(* Every method of the source is an operator from a world to a world (or   *)
(* to a record [w, ret] when the method returns an entry).                 *)
(***************************************************************************)
EXTENDS Integers, Sequences, FiniteSets, TLC

\* ------------------------------------------------------------ bounds
NEnt == 4
MaxKey == 1

\* the entry objects the callers have: odd ones are HVal, even ones MultiHVal
Ents == 1 .. NEnt
HEnts == {e \in Ents : e % 2 = 1}
MEnts == {e \in Ents : e % 2 = 0}
Keys == 0 .. MaxKey
Heaps == {"A", "B"}

\* Heap.__init__: self.name = name.  Both heaps are constructed with the
\* same name string; "A" and "B" are the two Heap objects themselves.
name == [h \in Heaps |-> "m"]

VARIABLES heap, is_min, val, hpos, mpos, last

vars == <<heap, is_min, val, hpos, mpos, last>>

\* ------------------------------------------------------------ entries
IsHVal(w, e) == e \in DOMAIN w.hpos

\* faulty variant: an HVal never records the position it is given
setpos_multionly(w, e, h, pos) ==
    IF IsHVal(w, e)
    THEN w
    ELSE IF pos = -1
         THEN [w EXCEPT !.mpos[e] =
                   [k \in (DOMAIN w.mpos[e]) \ {h} |-> w.mpos[e][k]]]
         ELSE [w EXCEPT !.mpos[e] = (h :> pos) @@ w.mpos[e]]

\* faulty variant: the MultiHVal dictionary is keyed by the heap's name, so
\* heaps of one name share a key
setpos_byname(w, e, h, pos) ==
    IF IsHVal(w, e)
    THEN [w EXCEPT !.hpos[e] = pos]
    ELSE LET same == {g \in Heaps : name[g] = name[h]}
         IN  IF pos = -1
             THEN [w EXCEPT !.mpos[e] =
                       [k \in (DOMAIN w.mpos[e]) \ same |-> w.mpos[e][k]]]
             ELSE [w EXCEPT !.mpos[e] = [g \in same |-> pos] @@ w.mpos[e]]

\* faulty variant: MultiHVal.setpos(heap, -1) empties the whole dictionary
setpos_clearall(w, e, h, pos) ==
    IF IsHVal(w, e)
    THEN [w EXCEPT !.hpos[e] = pos]
    ELSE IF pos = -1
         THEN [w EXCEPT !.mpos[e] = <<>>]
         ELSE [w EXCEPT !.mpos[e] = (h :> pos) @@ w.mpos[e]]

\* HVal.setpos / MultiHVal.setpos
setpos(w, e, h, pos) ==
    IF IsHVal(w, e)
    THEN [w EXCEPT !.hpos[e] = pos]
    ELSE IF pos = -1
         THEN [w EXCEPT !.mpos[e] =
                   [k \in (DOMAIN w.mpos[e]) \ {h} |-> w.mpos[e][k]]]
         ELSE [w EXCEPT !.mpos[e] = (h :> pos) @@ w.mpos[e]]

\* MultiHVal.getpos raises KeyError when the dict has no key for the heap
haspos(w, e, h) == IsHVal(w, e) \/ h \in DOMAIN w.mpos[e]

\* HVal.getpos / MultiHVal.getpos (where it does not raise)
getpos(w, e, h) == IF IsHVal(w, e) THEN w.hpos[e] ELSE w.mpos[e][h]

\* HVal.__lt__ / MultiHVal.__lt__
lt(w, a, b) == w.val[a] < w.val[b]

\* HVal.__gt__ / MultiHVal.__gt__
gt(w, a, b) == w.val[a] > w.val[b]

\* ------------------------------------------------------------ the list
len(w, h) == Len(w.heap[h])

\* Heap.__iter__: iter(self.heap), the entries in list order
iter(w, h) == w.heap[h]

\* self.heap[i]
at(w, h, i) == w.heap[h][i + 1]

\* self.heap[i] = e
store(w, h, i, e) == [w EXCEPT !.heap[h][i + 1] = e]

\* self.heap.append(e)
append(w, h, e) == [w EXCEPT !.heap[h] = Append(@, e)]

\* self.heap.pop() : the list without its last element
droplast(w, h) == [w EXCEPT !.heap[h] = SubSeq(@, 1, Len(@) - 1)]

\* ------------------------------------------------------------ sifting
\* faulty variant: an item also passes an entry with an equal key
compar_nonstrict(w, h, newitem, other) ==
    IF w.is_min[h] THEN ~ gt(w, newitem, other) ELSE ~ lt(w, newitem, other)

\* compar = newitem.__lt__ if self.is_min else newitem.__gt__
compar(w, h, newitem, other) ==
    IF w.is_min[h] THEN lt(w, newitem, other) ELSE gt(w, newitem, other)

RECURSIVE _siftdown_nosetpos(_, _, _, _, _)
\* faulty variant: the parent moved down is not told its new position
_siftdown_nosetpos(w, h, startpos, pos, newitem) ==
    IF pos > startpos /\ compar(w, h, newitem, at(w, h, (pos - 1) \div 2))
    THEN LET parentpos == (pos - 1) \div 2
             parent == at(w, h, parentpos)
         IN  _siftdown_nosetpos(store(w, h, pos, parent),
                                h, startpos, parentpos, newitem)
    ELSE setpos(store(w, h, pos, newitem), newitem, h, pos)

RECURSIVE _siftdown_lost(_, _, _, _, _)
\* faulty variant: newitem is stored one step short of the place found,
\* over the parent that was just moved down
_siftdown_lost(w, h, startpos, pos, newitem) ==
    IF pos > startpos /\ compar(w, h, newitem, at(w, h, (pos - 1) \div 2))
    THEN LET parentpos == (pos - 1) \div 2
             parent == at(w, h, parentpos)
             w1 == setpos(store(w, h, pos, parent), parent, h, pos)
         IN  IF parentpos > startpos
                /\ compar(w, h, newitem, at(w, h, (parentpos - 1) \div 2))
             THEN _siftdown_lost(w1, h, startpos, parentpos, newitem)
             ELSE setpos(store(w1, h, pos, newitem), newitem, h, pos)
    ELSE setpos(store(w, h, pos, newitem), newitem, h, pos)

RECURSIVE _siftdown(_, _, _, _, _)
\* Heap._siftdown: move parents down until newitem fits, then store it
_siftdown(w, h, startpos, pos, newitem) ==
    IF pos > startpos /\ compar(w, h, newitem, at(w, h, (pos - 1) \div 2))
    THEN LET parentpos == (pos - 1) \div 2
             parent == at(w, h, parentpos)
         IN  _siftdown(setpos(store(w, h, pos, parent), parent, h, pos),
                       h, startpos, parentpos, newitem)
    ELSE setpos(store(w, h, pos, newitem), newitem, h, pos)

\* faulty variant: on a tie the right child wins
winner_min_right(w, h, childpos, endpos) ==
    IF childpos + 1 < endpos /\ ~ gt(w, at(w, h, childpos + 1), at(w, h, childpos))
    THEN childpos + 1 ELSE childpos

\* "index of smaller child" (min) / "index of larger child" (max)
winner_min(w, h, childpos, endpos) ==
    IF childpos + 1 < endpos /\ lt(w, at(w, h, childpos + 1), at(w, h, childpos))
    THEN childpos + 1 ELSE childpos

winner_max(w, h, childpos, endpos) ==
    IF childpos + 1 < endpos /\ gt(w, at(w, h, childpos + 1), at(w, h, childpos))
    THEN childpos + 1 ELSE childpos

RECURSIVE bubble_min(_, _, _, _)
\* the while loop of _siftup_min: result is [w, pos] at the leaf reached
bubble_min(w, h, pos, endpos) ==
    IF 2 * pos + 1 < endpos
    THEN LET childpos == winner_min(w, h, 2 * pos + 1, endpos)
             c == at(w, h, childpos)
         IN  bubble_min(setpos(store(w, h, pos, c), c, h, pos), h, childpos, endpos)
    ELSE [w |-> w, pos |-> pos]

RECURSIVE bubble_max(_, _, _, _)
\* the while loop of _siftup_max
bubble_max(w, h, pos, endpos) ==
    IF 2 * pos + 1 < endpos
    THEN LET childpos == winner_max(w, h, 2 * pos + 1, endpos)
             c == at(w, h, childpos)
         IN  bubble_max(setpos(store(w, h, pos, c), c, h, pos), h, childpos, endpos)
    ELSE [w |-> w, pos |-> pos]

\* Heap._siftup_min
_siftup_min(w, h, pos) ==
    LET newitem == at(w, h, pos)
        b == bubble_min(w, h, pos, len(w, h))
    IN  _siftdown(b.w, h, pos, b.pos, newitem)

\* faulty variant: the item is left at the leaf the sink reached
_siftup_max_leaf(w, h, pos) ==
    LET newitem == at(w, h, pos)
        b == bubble_max(w, h, pos, len(w, h))
    IN  setpos(store(b.w, h, b.pos, newitem), newitem, h, b.pos)

\* Heap._siftup_max
_siftup_max(w, h, pos) ==
    LET newitem == at(w, h, pos)
        b == bubble_max(w, h, pos, len(w, h))
    IN  _siftdown(b.w, h, pos, b.pos, newitem)

RECURSIVE rise_path_tozero(_, _, _, _, _)
\* faulty variant: the loop runs to the root whatever startpos is
rise_path_tozero(w, h, startpos, pos, newitem) ==
    IF pos > 0 /\ compar(w, h, newitem, at(w, h, (pos - 1) \div 2))
    THEN <<pos>> \o rise_path_tozero(w, h, startpos, (pos - 1) \div 2, newitem)
    ELSE <<pos>>

RECURSIVE rise_path(_, _, _, _, _)
\* the while loop of _siftdown: the values pos takes, in order
rise_path(w, h, startpos, pos, newitem) ==
    IF pos > startpos /\ compar(w, h, newitem, at(w, h, (pos - 1) \div 2))
    THEN LET parentpos == (pos - 1) \div 2
             parent == at(w, h, parentpos)
         IN  <<pos>> \o rise_path(setpos(store(w, h, pos, parent), parent, h, pos),
                                  h, startpos, parentpos, newitem)
    ELSE <<pos>>

RECURSIVE sink_path(_, _, _, _)
\* the while loop of _siftup_min / _siftup_max: the values pos takes, in order
sink_path(w, h, pos, endpos) ==
    IF 2 * pos + 1 < endpos
    THEN LET childpos == IF w.is_min[h] THEN winner_min(w, h, 2 * pos + 1, endpos)
                                        ELSE winner_max(w, h, 2 * pos + 1, endpos)
             c == at(w, h, childpos)
         IN  <<pos>> \o sink_path(setpos(store(w, h, pos, c), c, h, pos),
                                  h, childpos, endpos)
    ELSE <<pos>>

\* Heap._siftup_inplace
_siftup_inplace(w, h, pos) ==
    IF w.is_min[h] THEN _siftup_min(w, h, pos) ELSE _siftup_max(w, h, pos)

\* Heap._siftup
_siftup(w, h, pos, item) ==
    LET w1 == setpos(store(w, h, pos, item), item, h, pos)
    IN  IF w1.is_min[h] THEN _siftup_min(w1, h, pos) ELSE _siftup_max(w1, h, pos)

\* ------------------------------------------------------------ public operations
\* faulty variant: the new item is appended and never sifted
push_nosift(w, h, item) ==
    LET w1 == append(w, h, item)
    IN  setpos(w1, item, h, len(w1, h) - 1)

\* Heap.push
push(w, h, item) ==
    LET w1 == append(w, h, item)
    IN  _siftdown(w1, h, 0, len(w1, h) - 1, item)

\* faulty variant: the returned entry keeps its position
pop_keeppos(w, h) ==
    LET lastelt == at(w, h, len(w, h) - 1)
        w1 == droplast(w, h)
    IN  IF len(w1, h) = 0
        THEN [w |-> w1, ret |-> lastelt]
        ELSE [w |-> _siftup(w1, h, 0, lastelt), ret |-> at(w1, h, 0)]

\* Heap.pop (on a non-empty list): [w, ret]
pop(w, h) ==
    LET lastelt == at(w, h, len(w, h) - 1)
        w1 == droplast(w, h)
    IN  IF len(w1, h) = 0
        THEN [w |-> setpos(w1, lastelt, h, -1), ret |-> lastelt]
        ELSE LET ret == at(w1, h, 0)
             IN  [w |-> setpos(_siftup(w1, h, 0, lastelt), ret, h, -1), ret |-> ret]

\* faulty variant: the last element is put back at pos even when pos is its
\* own index, which is past the end of the shortened list
remove_refill(w, h, item) ==
    LET pos == getpos(w, item, h)
        w1 == setpos(w, item, h, -1)
        lastelt == at(w1, h, len(w1, h) - 1)
        w2 == droplast(w1, h)
    IN  IF pos < len(w2, h)
        THEN IF lt(w2, lastelt, item) = w2.is_min[h]
             THEN _siftdown(w2, h, 0, pos, lastelt)
             ELSE _siftup(w2, h, pos, lastelt)
        ELSE setpos(append(w2, h, lastelt), lastelt, h, pos)

\* Heap.remove (item resident in h, so getpos and the assert pass)
remove(w, h, item) ==
    LET pos == getpos(w, item, h)
        w1 == setpos(w, item, h, -1)
        lastelt == at(w1, h, len(w1, h) - 1)
        w2 == droplast(w1, h)
    IN  IF pos < len(w2, h)
        THEN IF w2.is_min[h]
             THEN IF lt(w2, lastelt, item)
                  THEN _siftdown(w2, h, 0, pos, lastelt)
                  ELSE _siftup(w2, h, pos, lastelt)
             ELSE IF gt(w2, lastelt, item)
                  THEN _siftup(w2, h, pos, lastelt)
                  ELSE _siftdown(w2, h, 0, pos, lastelt)
        ELSE w2

\* faulty variant: the new item is stored at the root and not sifted
replace_nosift(w, h, item) ==
    LET ret == at(w, h, 0)
        w1 == setpos(w, ret, h, -1)
    IN  [w |-> setpos(store(w1, h, 0, item), item, h, 0), ret |-> ret]

\* Heap.replace (on a non-empty list): [w, ret]
replace(w, h, item) ==
    LET ret == at(w, h, 0)
        w1 == setpos(w, ret, h, -1)
    IN  [w |-> _siftup(w1, h, 0, item), ret |-> ret]

\* faulty variant: the root is replaced whatever its order relative to item
pushpop_always(w, h, item) ==
    IF len(w, h) > 0 THEN replace(w, h, item) ELSE [w |-> w, ret |-> item]

\* faulty variant: a root with a key equal to the item's is replaced too
pushpop_nonstrict(w, h, item) ==
    IF len(w, h) > 0
    THEN LET r == IF w.is_min[h] THEN ~ gt(w, at(w, h, 0), item)
                                 ELSE ~ lt(w, at(w, h, 0), item)
         IN  IF r THEN replace(w, h, item) ELSE [w |-> w, ret |-> item]
    ELSE [w |-> w, ret |-> item]

\* Heap.pushpop: [w, ret]
pushpop(w, h, item) ==
    IF len(w, h) > 0
    THEN LET r == IF w.is_min[h] THEN lt(w, at(w, h, 0), item)
                                 ELSE gt(w, at(w, h, 0), item)
         IN  IF r THEN replace(w, h, item) ELSE [w |-> w, ret |-> item]
    ELSE [w |-> w, ret |-> item]

RECURSIVE clear_from(_, _, _)
\* heapify: for e in self.heap: e.setpos(self, -1)   (from list index i on)
clear_from(w, h, i) ==
    IF i < len(w, h)
    THEN clear_from(setpos(w, at(w, h, i), h, -1), h, i + 1)
    ELSE w

RECURSIVE number_from(_, _, _)
\* heapify: for i in range(n): x[i].setpos(self, i)   (from list index i on)
number_from(w, h, i) ==
    IF i < len(w, h)
    THEN number_from(setpos(w, at(w, h, i), h, i), h, i + 1)
    ELSE w

RECURSIVE sift_from(_, _, _)
\* heapify: for i in reversed(range(n // 2)): sifter(i)   (from index i down)
sift_from(w, h, i) ==
    IF i >= 0
    THEN sift_from(_siftup_inplace(w, h, i), h, i - 1)
    ELSE w

RECURSIVE sift_upto(_, _, _, _)
\* faulty variant, helper: for i in range(n // 2): sifter(i)
sift_upto(w, h, i, n) ==
    IF i < n
    THEN sift_upto(_siftup_inplace(w, h, i), h, i + 1, n)
    ELSE w

\* faulty variant: the entries already in the heap keep their positions
heapify_keepold(w, h, x) ==
    LET w2 == [w EXCEPT !.heap[h] = x]
        w3 == number_from(w2, h, 0)
    IN  sift_from(w3, h, (Len(x) \div 2) - 1)

\* faulty variant: the transform runs top down instead of bottom up
heapify_topdown(w, h, x) ==
    LET w1 == clear_from(w, h, 0)
        w2 == [w1 EXCEPT !.heap[h] = x]
        w3 == number_from(w2, h, 0)
    IN  sift_upto(w3, h, 0, Len(x) \div 2)

\* Heap.heapify
heapify(w, h, x) ==
    LET w1 == clear_from(w, h, 0)
        w2 == [w1 EXCEPT !.heap[h] = x]
        w3 == number_from(w2, h, 0)
    IN  sift_from(w3, h, (Len(x) \div 2) - 1)

RECURSIVE sink_steps_up(_, _)
\* faulty variant, helper: the sinks run from index i up to n - 1
sink_steps_up(i, n) ==
    IF i < n THEN <<[op |-> "sink", i |-> i]>> \o sink_steps_up(i + 1, n) ELSE <<>>

RECURSIVE sink_steps(_)
\* heapify: for i in reversed(range(n // 2)): sifter(i)   (from index i down)
sink_steps(i) ==
    IF i >= 0 THEN <<[op |-> "sink", i |-> i]>> \o sink_steps(i - 1) ELSE <<>>

\* faulty variant: the sinks run top down and before the positions are set
heapify_steps_early(w, h, x) ==
    [i \in 1 .. len(w, h) |-> [op |-> "clear", i |-> i - 1]]
    \o <<[op |-> "install", i |-> Len(x)]>>
    \o sink_steps_up(0, Len(x) \div 2)
    \o [i \in 1 .. Len(x) |-> [op |-> "setpos", i |-> i - 1]]

\* Heap.heapify, statement by statement: the steps it takes, in order
\*   clear i  : e.setpos(self, -1) for the old list's element at i
\*   install  : self.heap = x
\*   setpos i : x[i].setpos(self, i)
\*   sink i   : sifter(i)
heapify_steps(w, h, x) ==
    [i \in 1 .. len(w, h) |-> [op |-> "clear", i |-> i - 1]]
    \o <<[op |-> "install", i |-> Len(x)]>>
    \o [i \in 1 .. Len(x) |-> [op |-> "setpos", i |-> i - 1]]
    \o sink_steps((Len(x) \div 2) - 1)

\* one step of heapify applied to the world
heapify_step(w, h, x, s) ==
    IF s.op = "clear" THEN setpos(w, at(w, h, s.i), h, -1)
    ELSE IF s.op = "install" THEN [w EXCEPT !.heap[h] = x]
    ELSE IF s.op = "setpos" THEN setpos(w, at(w, h, s.i), h, s.i)
    ELSE _siftup_inplace(w, h, s.i)

RECURSIVE heapify_run(_, _, _, _, _)
\* the steps of a list of steps applied in order, from step k on
heapify_run(w, h, x, steps, k) ==
    IF k <= Len(steps)
    THEN heapify_run(heapify_step(w, h, x, steps[k]), h, x, steps, k + 1)
    ELSE w

\* faulty variant: the direction test is inverted
fix_after_delta_swapped(w, h, item, is_smaller) ==
    LET pos == getpos(w, item, h)
    IN  IF is_smaller # w.is_min[h]
        THEN _siftdown(w, h, 0, pos, item)
        ELSE _siftup_inplace(w, h, pos)

\* Heap.fix_after_delta (item resident in h, so getpos and the assert pass)
fix_after_delta(w, h, item, is_smaller) ==
    LET pos == getpos(w, item, h)
    IN  IF is_smaller = w.is_min[h]
        THEN _siftdown(w, h, 0, pos, item)
        ELSE _siftup_inplace(w, h, pos)

\* Heap.decreased
decreased(w, h, item) == fix_after_delta(w, h, item, TRUE)

\* Heap.increased
increased(w, h, item) == fix_after_delta(w, h, item, FALSE)

\* ------------------------------------------------------------ calls that raise
\* self.heap[i] on the Python list: does the index exist (-len <= i < len)
inrange(w, h, i) == - len(w, h) <= i /\ i < len(w, h)

\* self.heap[i] on the Python list, a negative index counting from the end
index(w, h, i) == IF i < 0 THEN at(w, h, i + len(w, h)) ELSE at(w, h, i)

\* remove / fix_after_delta, their first two statements:
\*     pos = item.getpos(self); assert self.heap[pos] is item
\* the exception they raise, "none" when they pass
check_resident(w, h, item) ==
    IF ~ haspos(w, item, h) THEN "KeyError"
    ELSE IF ~ inrange(w, h, getpos(w, item, h)) THEN "IndexError"
    ELSE IF index(w, h, getpos(w, item, h)) # item THEN "AssertionError"
    ELSE "none"

\* faulty variant: the position is cleared before the entry is checked
remove_call_late(w, h, item) ==
    LET w1 == setpos(w, item, h, -1)
        exc == check_resident(w, h, item)
    IN  IF exc # "none" THEN [w |-> w1, exc |-> exc]
        ELSE [w |-> remove(w, h, item), exc |-> "none"]

\* Heap.remove, any argument: [w, exc]
remove_call(w, h, item) ==
    LET exc == check_resident(w, h, item)
    IN  IF exc # "none" THEN [w |-> w, exc |-> exc]
        ELSE [w |-> remove(w, h, item), exc |-> "none"]

\* Heap.fix_after_delta, any argument: [w, exc]
fix_after_delta_call(w, h, item, is_smaller) ==
    LET exc == check_resident(w, h, item)
    IN  IF exc # "none" THEN [w |-> w, exc |-> exc]
        ELSE [w |-> fix_after_delta(w, h, item, is_smaller), exc |-> "none"]

\* faulty variant: an empty heap hands back a sentinel instead of raising
pop_call_sentinel(w, h) ==
    IF len(w, h) = 0 THEN [w |-> w, exc |-> "none"]
    ELSE [w |-> pop(w, h).w, ret |-> pop(w, h).ret, exc |-> "none"]

\* Heap.pop, any heap: [w, ret, exc]; list.pop() raises on the empty list
pop_call(w, h) ==
    IF len(w, h) = 0 THEN [w |-> w, exc |-> "IndexError"]
    ELSE [w |-> pop(w, h).w, ret |-> pop(w, h).ret, exc |-> "none"]

\* faulty variant: on an empty heap the item is inserted
replace_call_insert(w, h, item) ==
    IF len(w, h) = 0 THEN [w |-> push(w, h, item), exc |-> "none"]
    ELSE [w |-> replace(w, h, item).w, ret |-> replace(w, h, item).ret,
          exc |-> "none"]

\* Heap.replace, any heap: [w, ret, exc]; ret = self.heap[0] raises first
replace_call(w, h, item) ==
    IF ~ inrange(w, h, 0) THEN [w |-> w, exc |-> "IndexError"]
    ELSE [w |-> replace(w, h, item).w, ret |-> replace(w, h, item).ret,
          exc |-> "none"]

\* Heap.__getitem__: [ret, exc]
getitem_call(w, h, i) ==
    IF ~ inrange(w, h, i) THEN [exc |-> "IndexError"]
    ELSE [ret |-> index(w, h, i), exc |-> "none"]

\* ------------------------------------------------------------ debug_assert
\* Heap._assert_min / Heap._assert_max: TRUE when the check does not raise
_assert_min(w, h, pos, c) == ~ lt(w, at(w, h, c), at(w, h, pos))

_assert_max(w, h, pos, c) == ~ gt(w, at(w, h, c), at(w, h, pos))

\* faulty variant: the max-heap is checked with the min-heap's test
check_property_minonly(w, h, pos, c) == _assert_min(w, h, pos, c)

check_property(w, h, pos, c) ==
    IF w.is_min[h] THEN _assert_min(w, h, pos, c) ELSE _assert_max(w, h, pos, c)

RECURSIVE _assert_at(_, _, _)
\* Heap._assert_at: TRUE when no AssertionError (or KeyError) is raised
_assert_at(w, h, pos) ==
    IF pos < len(w, h)
    THEN /\ haspos(w, at(w, h, pos), h)
         /\ getpos(w, at(w, h, pos), h) = pos
         /\ (2 * pos + 1 < len(w, h)
                => /\ check_property(w, h, pos, 2 * pos + 1)
                   /\ _assert_at(w, h, 2 * pos + 1))
         /\ (2 * pos + 2 < len(w, h) => check_property(w, h, pos, 2 * pos + 2))
         /\ _assert_at(w, h, 2 * pos + 2)
    ELSE TRUE

\* Heap.debug_assert: TRUE when it returns normally
debug_assert(w, h) == _assert_at(w, h, 0)

RECURSIVE _assert_at_walk(_, _, _)
\* Heap._assert_at with what it does on the way: vis, the indices whose
\* getpos was read, in the order they were read; exc, the exception that
\* ended the walk ("none" when it returned); bad, the index it was at then
_assert_at_walk(w, h, pos) ==
    IF ~ (pos < len(w, h)) THEN [vis |-> <<>>, exc |-> "none", bad |-> -1]
    ELSE IF ~ haspos(w, at(w, h, pos), h)
    THEN [vis |-> <<pos>>, exc |-> "KeyError", bad |-> pos]
    ELSE IF getpos(w, at(w, h, pos), h) # pos
    THEN [vis |-> <<pos>>, exc |-> "AssertionError", bad |-> pos]
    ELSE LET c == 2 * pos + 1
         IN  IF c < len(w, h) /\ ~ check_property(w, h, pos, c)
             THEN [vis |-> <<pos>>, exc |-> "AssertionError", bad |-> pos]
             ELSE LET l == _assert_at_walk(w, h, c)
                  IN  IF l.exc # "none"
                      THEN [l EXCEPT !.vis = <<pos>> \o l.vis]
                      ELSE IF c + 1 < len(w, h) /\ ~ check_property(w, h, pos, c + 1)
                      THEN [vis |-> <<pos>> \o l.vis,
                            exc |-> "AssertionError", bad |-> pos]
                      ELSE LET r == _assert_at_walk(w, h, c + 1)
                           IN  [r EXCEPT !.vis = <<pos>> \o l.vis \o r.vis]

\* Heap.debug_assert, any heap: [vis, exc, bad]
debug_assert_call(w, h) == _assert_at_walk(w, h, 0)

\* ------------------------------------------------------------ the callers
\* the entries in heap h's list
Resident(w, h) == {w.heap[h][i] : i \in DOMAIN w.heap[h]}

\* An entry the caller may put into heap h: not already in h, and an HVal
\* ("will be used in a single heap") in no heap at all.
Insertable(w, h, e) ==
    /\ e \notin Resident(w, h)
    /\ IsHVal(w, e) => \A g \in Heaps : e \notin Resident(w, g)

\* lists of distinct entries that heapify may be given for heap h
Distinct ==
    {x \in UNION {[1 .. n -> Ents] : n \in 0 .. NEnt} :
        \A i, j \in DOMAIN x : i # j => x[i] # x[j]}

Lists(w, h) ==
    {x \in Distinct :
        \A i \in DOMAIN x :
            IsHVal(w, x[i]) => \A g \in Heaps \ {h} : x[i] \notin Resident(w, g)}

RECURSIVE fix_in(_, _, _, _)
\* the caller of a key change: h.fix_after_delta(e, is_smaller) in every heap
\* of hs, the heaps e is resident in
fix_in(w, hs, e, is_smaller) ==
    IF hs = {} THEN w
    ELSE LET h == CHOOSE g \in hs : TRUE
         IN  fix_in(fix_after_delta(w, h, e, is_smaller), hs \ {h}, e, is_smaller)

World == [heap |-> heap, is_min |-> is_min, val |-> val, hpos |-> hpos, mpos |-> mpos]

Becomes(w1) ==
    \E w \in {w1} :
    /\ heap' = w.heap
    /\ is_min' = w.is_min
    /\ val' = w.val
    /\ hpos' = w.hpos
    /\ mpos' = w.mpos

\* the caller's record of the method it called last
Did(op) == last' = op

\* Heap(name, is_min=...) twice, HVal(v) / MultiHVal(v) for every entry
Init ==
    /\ heap = [h \in Heaps |-> <<>>]
    /\ is_min \in {f \in [Heaps -> BOOLEAN] : f["B"]}
    /\ val \in [Ents -> Keys]
    /\ hpos = [e \in HEnts |-> -1]
    /\ mpos = [e \in MEnts |-> <<>>]
    /\ last = "init"

Push(h, e) ==
    /\ Insertable(World, h, e)
    /\ Becomes(push(World, h, e))
    /\ Did("push")

Pop(h) ==
    /\ len(World, h) > 0
    /\ \E r \in {pop(World, h)} :
           Becomes(r.w) /\ Did("pop")

Remove(h, e) ==
    /\ e \in Resident(World, h)
    /\ Becomes(remove(World, h, e))
    /\ Did("remove")

Replace(h, e) ==
    /\ len(World, h) > 0
    /\ Insertable(World, h, e)
    /\ \E r \in {replace(World, h, e)} :
           Becomes(r.w) /\ Did("replace")

PushPop(h, e) ==
    /\ Insertable(World, h, e)
    /\ \E r \in {pushpop(World, h, e)} :
           Becomes(r.w) /\ Did("pushpop")

Heapify(h, x) ==
    /\ x \in Lists(World, h)
    /\ Becomes(heapify(World, h, x))
    /\ Did("heapify")

\* e.val = v, then decreased(e) / increased(e) in every heap e is resident in
\* (test_adjustments: e.val += v; h.fix_after_delta(e, v < 0))
Adjust(e, v, is_smaller) ==
    /\ v < val[e] => is_smaller
    /\ v > val[e] => ~ is_smaller
    /\ LET w1 == [World EXCEPT !.val[e] = v]
           hs == {h \in Heaps : e \in Resident(World, h)}
       IN  /\ hs # {}
           /\ Becomes(fix_in(w1, hs, e, is_smaller))
           /\ Did(IF is_smaller THEN "decreased" ELSE "increased")

\* the public operations, called on the heaps of H
Ops(H) ==
    \/ \E h \in H, e \in Ents : Push(h, e)
    \/ \E h \in H : Pop(h)
    \/ \E h \in H, e \in Ents : Remove(h, e)
    \/ \E h \in H, e \in Ents : Replace(h, e)
    \/ \E h \in H, e \in Ents : PushPop(h, e)
    \/ \E h \in H : \E x \in Lists(World, h) : Heapify(h, x)
    \/ \E e \in Ents, v \in Keys, is_smaller \in BOOLEAN : Adjust(e, v, is_smaller)

\* one heap in use (heap "B" is constructed and never used)
Next == Ops({"A"})

Spec == Init /\ [][Next]_vars

RECURSIVE pushall(_, _, _, _)
\* for e in y: h.push(e)   (from list index i on)
pushall(w, h, y, i) ==
    IF i <= Len(y)
    THEN pushall(push(w, h, y[i]), h, y, i + 1)
    ELSE w

\* two heaps in use (test_multi_random): the MultiHVal entries have been
\* pushed into heap "B", in any order, before heap "A" is used
InitMulti ==
    /\ is_min \in {f \in [Heaps -> BOOLEAN] : f["B"]}
    /\ val \in [Ents -> Keys]
    /\ last = "init"
    /\ \E y \in {x \in Distinct : {x[i] : i \in DOMAIN x} = MEnts} :
       \E w \in {pushall([heap |-> [h \in Heaps |-> <<>>],
                          is_min |-> is_min,
                          val |-> val,
                          hpos |-> [e \in HEnts |-> -1],
                          mpos |-> [e \in MEnts |-> <<>>]], "B", y, 1)} :
           /\ heap = w.heap
           /\ hpos = w.hpos
           /\ mpos = w.mpos

SpecMulti == InitMulti /\ [][Next]_vars

\* ------------------------------------------------------------ misuse
\* calls the documentation rules out: an entry that is not in the heap, an
\* empty heap.  The caller catches the exception and records it.
RemoveAbsent(h, e) ==
    /\ e \notin Resident(World, h)
    /\ \E r \in {remove_call(World, h, e)} :
           Becomes(r.w) /\ Did("remove " \o r.exc)

FixAbsent(h, e, is_smaller) ==
    /\ e \notin Resident(World, h)
    /\ \E r \in {fix_after_delta_call(World, h, e, is_smaller)} :
           /\ Becomes(r.w)
           /\ Did((IF is_smaller THEN "decreased " ELSE "increased ") \o r.exc)

PopEmpty(h) ==
    /\ len(World, h) = 0
    /\ \E r \in {pop_call(World, h)} :
           Becomes(r.w) /\ Did("pop " \o r.exc)

ReplaceEmpty(h, e) ==
    /\ len(World, h) = 0
    /\ Insertable(World, h, e)
    /\ \E r \in {replace_call(World, h, e)} :
           Becomes(r.w) /\ Did("replace " \o r.exc)

GetItemEmpty(h) ==
    /\ len(World, h) = 0
    /\ \E r \in {getitem_call(World, h, 0)} :
           Becomes(World) /\ Did("getitem " \o r.exc)

Misuse(H) ==
    \/ \E h \in H, e \in Ents : RemoveAbsent(h, e)
    \/ \E h \in H, e \in Ents, is_smaller \in BOOLEAN : FixAbsent(h, e, is_smaller)
    \/ \E h \in H : PopEmpty(h)
    \/ \E h \in H, e \in Ents : ReplaceEmpty(h, e)
    \/ \E h \in H : GetItemEmpty(h)

NextMisuse == Ops({"A"}) \/ Misuse({"A"})

\* heap "B" already holds an HVal and a MultiHVal (entries 1 and 2, pushed in
\* either order) when heap "A" is used
InitShared ==
    /\ is_min \in {f \in [Heaps -> BOOLEAN] : f["B"]}
    /\ val \in [Ents -> Keys]
    /\ last = "init"
    /\ \E y \in {x \in Distinct : {x[i] : i \in DOMAIN x} = {1, 2}} :
       \E w \in {pushall([heap |-> [h \in Heaps |-> <<>>],
                          is_min |-> is_min,
                          val |-> val,
                          hpos |-> [e \in HEnts |-> -1],
                          mpos |-> [e \in MEnts |-> <<>>]], "B", y, 1)} :
           /\ heap = w.heap
           /\ hpos = w.hpos
           /\ mpos = w.mpos

SpecMisuse == InitShared /\ [][NextMisuse]_vars

\* ------------------------------------------------------------ any array
\* a caller that writes the list and the positions itself (h.heap = [...],
\* e.pos = ...): heap "A" holds any list of distinct entries and every
\* entry of the list records any position, or none, for it
InitAny ==
    /\ heap \in {f \in [Heaps -> Distinct] : f["B"] = <<>>}
    /\ is_min \in {f \in [Heaps -> BOOLEAN] : f["B"]}
    /\ val \in [Ents -> Keys]
    /\ hpos \in {f \in [HEnts -> -1 .. NEnt - 1] :
                     \A e \in HEnts : e \notin Resident([heap |-> heap], "A") => f[e] = -1}
    /\ mpos \in {f \in [MEnts -> {<<>>} \cup [{"A"} -> 0 .. NEnt - 1]] :
                     \A e \in MEnts : e \notin Resident([heap |-> heap], "A") => f[e] = <<>>}
    /\ last = "init"

\* h.debug_assert(), the caller recording how it ended
DebugAssert(h) ==
    /\ \E r \in {debug_assert_call(World, h)} : Did("debug_assert " \o r.exc)
    /\ UNCHANGED <<heap, is_min, val, hpos, mpos>>

NextAny == \E h \in {"A"} : DebugAssert(h)

SpecAny == InitAny /\ [][NextAny]_vars

\* ====================================================================
\* Vocabulary of the properties
\* ====================================================================

\* invariant 2: no entry strictly precedes (min) / follows (max) its parent
HeapOrder(w, h) ==
    \A i \in 1 .. len(w, h) - 1 :
        IF w.is_min[h]
        THEN ~ (w.val[at(w, h, i)] < w.val[at(w, h, (i - 1) \div 2)])
        ELSE ~ (w.val[at(w, h, i)] > w.val[at(w, h, (i - 1) \div 2)])

\* invariant 3: the entry at index i records position i for heap h
PosConsistent(w, h) ==
    \A i \in 0 .. len(w, h) - 1 :
        haspos(w, at(w, h, i), h) /\ getpos(w, at(w, h, i), h) = i

\* entry e records no position for heap h
Absent(w, e, h) ==
    IF IsHVal(w, e) THEN w.hpos[e] = -1 ELSE h \notin DOMAIN w.mpos[e]

\* a key sequence is in pop order for heap h
InOrder(w, h, ks) ==
    \A i \in 1 .. Len(ks) - 1 :
        IF w.is_min[h] THEN ks[i] <= ks[i + 1] ELSE ks[i] >= ks[i + 1]

\* how often key k occurs in a key sequence
Count(ks, k) == Cardinality({i \in DOMAIN ks : ks[i] = k})

\* the keys of the entries of a list, in list order
KeysOf(w, x) == [i \in DOMAIN x |-> w.val[x[i]]]

RECURSIVE drain(_, _)
\* while len(h) > 0: h.pop(); h.debug_assert()
\* keys: the keys popped, in order; ok: every debug_assert passed
drain(w, h) ==
    IF len(w, h) = 0
    THEN [keys |-> <<>>, ok |-> TRUE, w |-> w]
    ELSE LET r == pop(w, h)
             d == drain(r.w, h)
         IN  [keys |-> <<w.val[r.ret]>> \o d.keys,
              ok |-> debug_assert(r.w, h) /\ d.ok,
              w |-> d.w]

\* a world of n HVal entries with the given keys and empty heaps
Fresh(keys, min) ==
    [heap |-> [h \in Heaps |-> <<>>],
     is_min |-> [h \in Heaps |-> min],
     val |-> keys,
     hpos |-> [e \in DOMAIN keys |-> -1],
     mpos |-> <<>>]

\* ====================================================================
\* C1  Heap-order invariant: after any sequence of public operations
\*     (push, pop, remove, replace, pushpop, heapify, key change with the
\*     truthful direction) no entry strictly precedes its parent in a
\*     min-heap or strictly follows it in a max-heap.
\*     Stated as claimed; remove on a max-heap breaks it.
\* ====================================================================
C1_HeapOrderInvariant == HeapOrder(World, "A")

\* ====================================================================
\* C2  Position consistency: after any sequence of public operations,
\*     for every index i < len(H), H.heap[i].getpos(H) = i.
\* ====================================================================
C2_PositionConsistency == \A h \in Heaps : PosConsistent(World, h)

\* a key change has just run on a full heap A of HVal and MultiHVal
\* entries whose keys are not all equal; a MultiHVal entry is resident in
\* both heaps at different indices
C2_Witness ==
    /\ last = "decreased"
    /\ len(World, "A") = NEnt
    /\ \E i, j \in Ents : val[i] # val[j]
    /\ \E e \in MEnts :
           /\ e \in Resident(World, "B")
           /\ mpos[e]["A"] # mpos[e]["B"]
           /\ at(World, "A", mpos[e]["A"]) = e
           /\ at(World, "B", mpos[e]["B"]) = e

\* 0..29 pushed in increasing order into a min-heap, then popped 30 times
C3_Scenario ==
    LET ks == [i \in 1 .. 30 |-> i - 1]
        w1 == pushall(Fresh(ks, TRUE), "A", [i \in 1 .. 30 |-> i], 1)
        d == drain(w1, "A")
    IN  /\ debug_assert(w1, "A")
        /\ d.keys = ks
        /\ d.ok
        /\ len(d.w, "A") = 0

\* ====================================================================
\* C3  Draining: from every non-empty heap reachable by the public
\*     operations, popping until empty returns the keys in non-decreasing
\*     (min) / non-increasing (max) order, debug_assert passes after
\*     every pop and the heap ends empty.
\*     Stated as claimed; a max-heap left by remove drains out of order.
\* ====================================================================
C3_DrainSorted ==
    /\ len(World, "A") > 0 =>
           LET d == drain(World, "A")
           IN  /\ InOrder(World, "A", d.keys)
               /\ d.ok
               /\ len(d.w, "A") = 0
    /\ C3_Scenario

\* ====================================================================
\* C4  remove(e) of an entry resident at any index of a valid heap:
\*     afterwards debug_assert passes, len is one less, the resident
\*     entries are the former ones minus e, and e's position is absent.
\*     Stated as claimed; fails for a max-heap.
\* ====================================================================
C4_RemoveKeepsHeap ==
    debug_assert(World, "A") =>
        \A e \in Resident(World, "A") :
            LET w == remove(World, "A", e)
            IN  /\ debug_assert(w, "A")
                /\ len(w, "A") = len(World, "A") - 1
                /\ Resident(w, "A") = Resident(World, "A") \ {e}
                /\ Absent(w, e, "A")

\* ====================================================================
\* C5  Key change: for any entry e resident in a heap (min or max), after
\*     the caller mutates e's key and calls decreased(e) when the key got
\*     smaller or increased(e) when it got larger, the set of resident
\*     entries is unchanged and position consistency holds; and if
\*     debug_assert passed before the key was changed, it passes after the
\*     call (heap order holds).  Every heap so obtained is itself a
\*     reachable state, so the same holds after any number of adjustments.
\* ====================================================================
C5_KeyChange ==
    \A e \in Resident(World, "A") : \A v \in Keys \ {val[e]} :
        LET w1 == [World EXCEPT !.val[e] = v]
            w == IF v < val[e] THEN decreased(w1, "A", e)
                               ELSE increased(w1, "A", e)
        IN  /\ PosConsistent(w, "A")
            /\ Resident(w, "A") = Resident(World, "A")
            /\ len(w, "A") = len(World, "A")
            /\ w.val = w1.val
            /\ debug_assert(World, "A") =>
                   (debug_assert(w, "A") /\ HeapOrder(w, "A"))

\* increased() has just repaired a max-heap of three or more entries
\* with different keys
C5_Witness ==
    /\ last = "increased"
    /\ ~ is_min["A"]
    /\ len(World, "A") >= 3
    /\ \E i, j \in Resident(World, "A") : val[i] # val[j]
    /\ debug_assert(World, "A")

\* [5,3,8,1,9,2] heapified into a min-heap: root 1; pop returns 1, new root 2
C6_Scenario ==
    LET w0 == Fresh(<<5, 3, 8, 1, 9, 2>>, TRUE)
        w1 == heapify(w0, "A", <<1, 2, 3, 4, 5, 6>>)
        r == pop(w1, "A")
    IN  /\ debug_assert(w1, "A")
        /\ w1.val[at(w1, "A", 0)] = 1
        /\ w1.val[r.ret] = 1
        /\ r.w.val[at(r.w, "A", 0)] = 2

\* ====================================================================
\* C6  heapify(x): for every list x of distinct entries (duplicate keys
\*     allowed, every order), in a min-heap and in a max-heap,
\*     debug_assert passes right after heapify(x), the heap holds exactly
\*     the entries of x with len = len(x), and draining it with pop()
\*     returns the keys of x in sorted order (ascending for min,
\*     descending for max).  [5,3,8,1,9,2] in a min-heap: root 1, pop
\*     returns 1, new root 2.
\* ====================================================================
C6_Heapify ==
    /\ \A x \in Lists(World, "A") :
           LET w == heapify(World, "A", x)
           IN  /\ debug_assert(w, "A")
               /\ w.heap["A"] \in Distinct
               /\ Resident(w, "A") = {x[i] : i \in DOMAIN x}
               /\ len(w, "A") = Len(x)
    /\ last = "heapify" =>
           LET d == drain(World, "A")
           IN  /\ InOrder(World, "A", d.keys)
               /\ \A k \in Keys :
                      Count(d.keys, k) = Count(KeysOf(World, heap["A"]), k)
               /\ d.ok
    /\ C6_Scenario

\* heapify has just built a full max-heap out of entries with different keys
C6_Witness ==
    /\ last = "heapify"
    /\ ~ is_min["A"]
    /\ len(World, "A") = NEnt
    /\ \E i, j \in Ents : val[i] # val[j]
    /\ debug_assert(World, "A")

\* ====================================================================
\* C7  Push: pushing a non-resident entry (keys in any order, duplicate
\*     keys allowed, min-heap or max-heap): afterwards len has grown by
\*     exactly one and the pushed entry is resident with getpos equal to
\*     its array index; and debug_assert passes after the push whenever it
\*     passed before it, as it does on the empty heap, hence after each
\*     push of a sequence of pushes into an initially empty heap.
\* ====================================================================
C7_Push ==
    /\ (len(World, "A") = 0 /\ last = "init") => debug_assert(World, "A")
    /\ \A e \in Ents :
           Insertable(World, "A", e) =>
               LET w == push(World, "A", e)
               IN  /\ len(w, "A") = len(World, "A") + 1
                   /\ Resident(w, "A") = Resident(World, "A") \cup {e}
                   /\ haspos(w, e, "A")
                   /\ getpos(w, e, "A") \in 0 .. len(w, "A") - 1
                   /\ at(w, "A", getpos(w, e, "A")) = e
                   /\ debug_assert(World, "A") => debug_assert(w, "A")

\* a push has just filled the heap, with a duplicate key and two
\* different keys among the entries
C7_Witness ==
    /\ last = "push"
    /\ len(World, "A") = NEnt
    /\ \E i, j \in Ents : i # j /\ val[i] = val[j]
    /\ \E i, j \in Ents : val[i] # val[j]
    /\ debug_assert(World, "A")

\* ====================================================================
\* C8  Position cleared on leaving: the entry returned by pop(), the
\*     entry passed to remove(), and the old root returned by replace()
\*     (and by pushpop() when it replaces) has no position for the heap
\*     when the operation returns: -1 for an HVal, no key in the
\*     position map for a MultiHVal.
\* ====================================================================
C8_PositionCleared ==
    /\ len(World, "A") > 0 =>
           LET r == pop(World, "A") IN Absent(r.w, r.ret, "A")
    /\ \A e \in Resident(World, "A") :
           Absent(remove(World, "A", e), e, "A")
    /\ \A e \in Ents :
           Insertable(World, "A", e) =>
               /\ len(World, "A") > 0 =>
                      LET r == replace(World, "A", e)
                      IN  Absent(r.w, r.ret, "A")
               /\ LET r == pushpop(World, "A", e)
                  IN  r.ret # e => Absent(r.w, r.ret, "A")

\* a pop has just returned an entry from a heap that still holds others;
\* an HVal and a MultiHVal are outside the heap with no position
C8_Witness ==
    /\ last = "pop"
    /\ len(World, "A") >= 2
    /\ \E e \in HEnts : e \notin Resident(World, "A") /\ hpos[e] = -1
    /\ \E e \in MEnts : e \notin Resident(World, "A") /\ "A" \notin DOMAIN mpos[e]

\* the max-heap [7,4]: replace(10) returns 7 and leaves {4,10}, 10 at index 0
C10_Scenario ==
    LET w0 == Fresh(<<7, 4, 10>>, FALSE)
        w1 == push(push(w0, "A", 1), "A", 2)
        r == replace(w1, "A", 3)
    IN  /\ w1.heap["A"] = <<1, 2>>
        /\ r.ret = 1
        /\ r.w.heap["A"] = <<3, 2>>
        /\ debug_assert(r.w, "A")

\* ====================================================================
\* C10 replace(entry) on a non-empty heap is equivalent to pop() followed
\*     by push(entry): it returns the entry pop() would return (the root)
\*     whatever its order relative to entry, leaves len unchanged, leaves
\*     the heap holding the former entries minus the old root plus entry
\*     - the entries pop-then-push leaves - with consistent positions,
\*     and, on a heap that passed debug_assert before the call, the result
\*     satisfies heap order, as the result of pop-then-push does.
\*     Max-heap [7,4]: replace(10) returns 7 and leaves {4,10} with 10 at
\*     index 0.
\* ====================================================================
C10_Replace ==
    /\ len(World, "A") > 0 =>
           \A e \in Ents :
               Insertable(World, "A", e) =>
                   LET r == replace(World, "A", e)
                       p == pop(World, "A")
                       q == push(p.w, "A", e)
                   IN  /\ r.ret = p.ret
                       /\ r.ret = at(World, "A", 0)
                       /\ len(r.w, "A") = len(World, "A")
                       /\ Resident(r.w, "A") =
                              (Resident(World, "A") \ {r.ret}) \cup {e}
                       /\ Resident(r.w, "A") = Resident(q, "A")
                       /\ len(r.w, "A") = len(q, "A")
                       /\ PosConsistent(r.w, "A")
                       /\ Absent(r.w, r.ret, "A")
                       /\ debug_assert(World, "A") =>
                              /\ HeapOrder(r.w, "A")
                              /\ debug_assert(r.w, "A")
                              /\ debug_assert(q, "A")
    /\ C10_Scenario

\* replace has just run on a min-heap of all entries but one, so the entry
\* outside is the old root it returned; its key is larger than the key now
\* at the root: the returned root sorts on the wrong side of the argument
C10_Witness ==
    /\ last = "replace"
    /\ is_min["A"]
    /\ len(World, "A") = NEnt - 1
    /\ debug_assert(World, "A")
    /\ \E e \in Ents :
           /\ e \notin Resident(World, "A")
           /\ val[e] > val[at(World, "A", 0)]

\* the worlds one operation on heap "A" alone can lead to
AfterOpOnA ==
    {push(World, "A", f) : f \in {g \in Ents : Insertable(World, "A", g)}}
    \cup {pop(World, "A").w : n \in {k \in {1} : len(World, "A") > 0}}
    \cup {remove(World, "A", f) : f \in Resident(World, "A")}
    \cup {replace(World, "A", f).w :
             f \in {g \in Ents : len(World, "A") > 0 /\ Insertable(World, "A", g)}}
    \cup {pushpop(World, "A", f).w : f \in {g \in Ents : Insertable(World, "A", g)}}
    \cup {heapify(World, "A", x) : x \in Lists(World, "A")}
    \cup UNION {{IF v < val[f]
                 THEN decreased([World EXCEPT !.val[f] = v], "A", f)
                 ELSE increased([World EXCEPT !.val[f] = v], "A", f) :
                    v \in Keys \ {val[f]}} : f \in Resident(World, "A")}

\* ====================================================================
\* C9  Multi-heap independence: for a MultiHVal entry e resident in two
\*     heaps A and B, any operation on A alone (push of another entry,
\*     pop, remove of e or of another entry, replace, pushpop,
\*     increased/decreased, heapify) leaves B's array unchanged and
\*     leaves the position every entry of B (e included) records for B
\*     unchanged, so B's positions stay consistent; removing or popping e
\*     from A deletes only A's key from e's position map.
\* ====================================================================
C9_MultiHeapIndependence ==
    \A e \in MEnts :
        (e \in Resident(World, "A") /\ e \in Resident(World, "B")) =>
            /\ \A w \in AfterOpOnA :
                   /\ w.heap["B"] = heap["B"]
                   /\ \A f \in Resident(World, "B") :
                          /\ haspos(w, f, "B")
                          /\ getpos(w, f, "B") = getpos(World, f, "B")
                   /\ PosConsistent(w, "B")
            /\ remove(World, "A", e).mpos[e] =
                   [k \in (DOMAIN mpos[e]) \ {"A"} |-> mpos[e][k]]
            /\ pop(World, "A").ret = e =>
                   pop(World, "A").w.mpos[e] =
                       [k \in (DOMAIN mpos[e]) \ {"A"} |-> mpos[e][k]]

\* a MultiHVal entry has just been removed from heap A, where it was not
\* alone, and is still resident in heap B at index 1, its position for B
\* being the only key left in its position map
C9_Witness ==
    /\ last = "remove"
    /\ len(World, "A") >= 2
    /\ \E e \in MEnts :
           /\ e \notin Resident(World, "A")
           /\ len(World, "B") >= 2
           /\ at(World, "B", 1) = e
           /\ DOMAIN mpos[e] = {"B"}
           /\ mpos[e]["B"] = 1

\* ====================================================================
\* C11 pushpop(entry) has exactly three outcomes.  (1) On an empty heap
\*     it returns entry and the heap stays empty.  (2) When the root
\*     strictly precedes entry in a min-heap (root < entry) or strictly
\*     follows it in a max-heap (root > entry), it returns the old root
\*     and the heap holds the former entries minus the root plus entry,
\*     len unchanged.  (3) Otherwise, equal keys included, it returns
\*     entry itself.  In (1) and (3) the array, every resident entry's
\*     position and entry's own position are unchanged.
\* ====================================================================
C11_PushPopOutcomes ==
    \A e \in Ents :
        Insertable(World, "A", e) =>
            LET r == pushpop(World, "A", e)
                root == at(World, "A", 0)
            IN  IF len(World, "A") = 0
                THEN /\ r.ret = e
                     /\ len(r.w, "A") = 0
                     /\ r.w = World
                ELSE IF (is_min["A"] /\ val[root] < val[e])
                          \/ (~ is_min["A"] /\ val[root] > val[e])
                THEN /\ r.ret = root
                     /\ r.ret # e
                     /\ Resident(r.w, "A") =
                            (Resident(World, "A") \ {root}) \cup {e}
                     /\ len(r.w, "A") = len(World, "A")
                     /\ r.w.heap["A"] \in Distinct
                ELSE /\ r.ret = e
                     /\ r.w.heap = World.heap
                     /\ r.w.hpos = World.hpos
                     /\ r.w.mpos = World.mpos
                     /\ r.w = World

\* pushpop has just run on a heap it left with two or more entries, and
\* an entry outside the heap has the same key as the root: the next
\* pushpop of that entry is outcome (3) with equal keys
C11_Witness ==
    /\ last = "pushpop"
    /\ len(World, "A") >= 2
    /\ \E e \in Ents :
           /\ Insertable(World, "A", e)
           /\ val[e] = val[at(World, "A", 0)]
           /\ pushpop(World, "A", e).ret = e

\* ====================================================================
\* C12 pushpop(entry) is a fast version of push(entry) followed by pop():
\*     for every heap (min or max, empty or not; an array that passes
\*     debug_assert) and every non-resident entry, the key of the entry
\*     pushpop returns equals the key of the entry push-then-pop returns,
\*     and the multiset of keys left in the heap is the same in both
\*     cases, with heap order and position consistency holding
\*     afterwards.  The two need not return the same entry, nor leave the
\*     same array, when keys are equal.
\* ====================================================================
C12_PushPopIsPushThenPop ==
    \A e \in Ents :
        (Insertable(World, "A", e) /\ debug_assert(World, "A")) =>
            LET r == pushpop(World, "A", e)
                p == pop(push(World, "A", e), "A")
            IN  /\ val[r.ret] = val[p.ret]
                /\ \A k \in Keys :
                       Count(KeysOf(r.w, r.w.heap["A"]), k) =
                           Count(KeysOf(p.w, p.w.heap["A"]), k)
                /\ len(r.w, "A") = len(p.w, "A")
                /\ len(r.w, "A") = len(World, "A")
                /\ PosConsistent(r.w, "A")
                /\ PosConsistent(p.w, "A")
                /\ HeapOrder(r.w, "A")
                /\ HeapOrder(p.w, "A")
                /\ debug_assert(r.w, "A")
                /\ debug_assert(p.w, "A")

\* pushpop has just run on a max-heap that is in heap order and holds
\* three entries; the entry outside has the key of the root, so pushpop
\* returns the argument where push-then-pop returns the root
C12_Witness ==
    /\ last = "pushpop"
    /\ ~ is_min["A"]
    /\ len(World, "A") = NEnt - 1
    /\ debug_assert(World, "A")
    /\ \E e \in Ents :
           /\ Insertable(World, "A", e)
           /\ val[e] = val[at(World, "A", 0)]
           /\ pushpop(World, "A", e).ret = e
           /\ pop(push(World, "A", e), "A").ret # e

Raised == {"AssertionError", "IndexError", "KeyError"}

\* ====================================================================
\* C14 A non-resident entry is rejected without side effects: remove(e),
\*     increased(e) and decreased(e), called with an entry e that is not
\*     resident in that heap (an HVal with position -1, an HVal resident
\*     in a different heap, or a MultiHVal with no key for this heap),
\*     raise AssertionError, IndexError or KeyError before any mutation:
\*     the heap's array, its length and every entry's position, e's
\*     included, are exactly as before the call.
\* ====================================================================
C14_NonResidentRejected ==
    \A e \in Ents \ Resident(World, "A") :
        LET r == remove_call(World, "A", e)
            d == fix_after_delta_call(World, "A", e, TRUE)
            i == fix_after_delta_call(World, "A", e, FALSE)
        IN  /\ r.exc \in Raised /\ d.exc \in Raised /\ i.exc \in Raised
            /\ r.w = World /\ d.w = World /\ i.w = World
            /\ r.w.heap["A"] = heap["A"] /\ len(r.w, "A") = len(World, "A")
            /\ r.w.hpos = hpos /\ r.w.mpos = mpos
            /\ (~ IsHVal(World, e)) => r.exc = "KeyError"
            /\ (IsHVal(World, e) /\ len(World, "A") = 0) => r.exc = "IndexError"
            /\ (IsHVal(World, e) /\ hpos[e] = -1 /\ len(World, "A") > 0)
                   => r.exc = "AssertionError"

\* remove() has just raised AssertionError: heap A is not empty, the HVal
\* entry 1 is resident in heap B at an index heap A has too, another
\* HVal has position -1 and a MultiHVal has no key for A
C14_Witness ==
    /\ last = "remove AssertionError"
    /\ len(World, "A") >= 1
    /\ 1 \in Resident(World, "B")
    /\ hpos[1] \in 0 .. len(World, "A") - 1
    /\ hpos[3] = -1
    /\ \E e \in MEnts : "A" \notin DOMAIN mpos[e]

\* ====================================================================
\* C15 Empty-heap operations fail fast: pop(), replace(entry) and the
\*     indexed read h[0] on a heap of length 0 raise an exception
\*     instead of returning a sentinel, the heap remains empty
\*     afterwards, and in the replace case the argument entry's position
\*     is not set.
\* ====================================================================
C15_EmptyHeapFailsFast ==
    len(World, "A") = 0 =>
        /\ pop_call(World, "A").exc = "IndexError"
        /\ pop_call(World, "A").w = World
        /\ len(pop_call(World, "A").w, "A") = 0
        /\ getitem_call(World, "A", 0).exc = "IndexError"
        /\ \A e \in Ents :
               Insertable(World, "A", e) =>
                   LET r == replace_call(World, "A", e)
                   IN  /\ r.exc = "IndexError"
                       /\ len(r.w, "A") = 0
                       /\ Absent(r.w, e, "A")
                       /\ r.w = World

\* replace() has just raised IndexError on the empty heap A; entries
\* that it could have been given still have no position for A
C15_Witness ==
    /\ last = "replace IndexError"
    /\ len(World, "A") = 0
    /\ hpos[3] = -1
    /\ \A e \in MEnts : "A" \notin DOMAIN mpos[e]

\* the order in which _assert_at reaches the indices below n: an index,
\* then its left subtree, then its right subtree
RECURSIVE Preorder(_, _)
Preorder(pos, n) ==
    IF pos < n
    THEN <<pos>> \o Preorder(2 * pos + 1, n) \o Preorder(2 * pos + 2, n)
    ELSE <<>>

\* some index i has heap[i].getpos(heap) != i, or some child strictly
\* precedes (min-heap) / strictly follows (max-heap) its parent
Breach(w, h) ==
    \/ \E i \in 0 .. len(w, h) - 1 : getpos(w, at(w, h, i), h) # i
    \/ ~ HeapOrder(w, h)

\* every entry of the array records a position for the heap
Recorded(w, h) == \A i \in 0 .. len(w, h) - 1 : haspos(w, at(w, h, i), h)

\* ====================================================================
\* C16 debug_assert() is a sound and complete check of invariants 2 and
\*     3 over the whole array: for every array content and every
\*     assignment of recorded positions it raises AssertionError if and
\*     only if some index i has heap[i].getpos(heap) != i or some child
\*     at 2i+1 or 2i+2 strictly precedes (min-heap) / strictly follows
\*     (max-heap) its parent at i; every index below len is visited, it
\*     passes on the empty heap, and it stops at the first breach it
\*     meets: it has read the positions of an initial part of the walk
\*     (index, left subtree, right subtree), all of them right but
\*     possibly the last, and every child relation it met before the
\*     last index holds.  (A MultiHVal in the array with no key for the
\*     heap records no position: getpos raises KeyError when the walk
\*     reaches it.)
\* ====================================================================
C16_DebugAssertSoundComplete ==
    LET r == debug_assert_call(World, "A")
        n == len(World, "A")
        walk == Preorder(0, n)
    IN  /\ Recorded(World, "A") =>
               /\ r.exc = "AssertionError" <=> Breach(World, "A")
               /\ r.exc = "none" <=> ~ Breach(World, "A")
        /\ r.exc = "none" <=> (HeapOrder(World, "A") /\ PosConsistent(World, "A"))
        /\ r.exc = "none" <=> debug_assert(World, "A")
        /\ r.exc = "none" => r.vis = walk
        /\ n = 0 => r.exc = "none"
        /\ r.exc # "none" =>
               /\ Len(r.vis) >= 1
               /\ r.vis = SubSeq(walk, 1, Len(r.vis))
               /\ \E k \in 1 .. Len(r.vis) : r.bad = r.vis[k]
               /\ \A k \in 1 .. Len(r.vis) - 1 :
                      /\ haspos(World, at(World, "A", r.vis[k]), "A")
                      /\ getpos(World, at(World, "A", r.vis[k]), "A") = r.vis[k]
               /\ \A k \in 2 .. Len(r.vis) :
                      check_property(World, "A", (r.vis[k] - 1) \div 2, r.vis[k])
               /\ \/ ~ haspos(World, at(World, "A", r.bad), "A")
                  \/ getpos(World, at(World, "A", r.bad), "A") # r.bad
                  \/ \E c \in {2 * r.bad + 1, 2 * r.bad + 2} :
                         c < n /\ ~ check_property(World, "A", r.bad, c)

\* debug_assert has just raised AssertionError on a full array with two
\* breaches: every position is right at indices 0 and 1, the entry at
\* index 3 strictly precedes its parent, and the entry at index 2 records
\* a wrong position; the walk stopped at index 1, before reaching either
C16_Witness ==
    /\ last = "debug_assert AssertionError"
    /\ is_min["A"]
    /\ len(World, "A") = NEnt
    /\ Recorded(World, "A")
    /\ getpos(World, at(World, "A", 0), "A") = 0
    /\ getpos(World, at(World, "A", 1), "A") = 1
    /\ val[at(World, "A", 3)] < val[at(World, "A", 1)]
    /\ getpos(World, at(World, "A", 2), "A") # 2
    /\ debug_assert_call(World, "A").vis = <<0, 1>>

\* ====================================================================
\* C17 heapify(x) discards the existing contents: every entry that was
\*     resident before the call and is not in x has its position for
\*     this heap absent afterwards, every entry of x (one that was
\*     resident before included) has its position equal to its final
\*     index, and no previously resident entry outside x remains in the
\*     array.
\* ====================================================================
C17_HeapifyDiscards ==
    \A x \in Lists(World, "A") :
        LET w == heapify(World, "A", x)
            inx == {x[i] : i \in DOMAIN x}
        IN  /\ \A e \in Resident(World, "A") \ inx :
                   /\ Absent(w, e, "A")
                   /\ e \notin Resident(w, "A")
            /\ \A e \in inx :
                   /\ haspos(w, e, "A")
                   /\ getpos(w, e, "A") \in 0 .. len(w, "A") - 1
                   /\ at(w, "A", getpos(w, e, "A")) = e
            /\ Resident(w, "A") = inx

\* heapify has just rebuilt heap A from two entries; the two entries
\* outside, an HVal and a MultiHVal, record no position for A, and a
\* heapify over a list that keeps one resident entry and drops the other
\* can follow
C17_Witness ==
    /\ last = "heapify"
    /\ len(World, "A") = 2
    /\ \E e \in HEnts : e \notin Resident(World, "A") /\ Absent(World, e, "A")
    /\ \E e \in MEnts : e \notin Resident(World, "A") /\ Absent(World, e, "A")
    /\ \E x \in Lists(World, "A") :
           /\ Len(x) = 3
           /\ Cardinality({x[i] : i \in DOMAIN x} \cap Resident(World, "A")) = 1

RECURSIVE Stays(_, _, _, _)
\* for e in y: h.push(e), from list index i on: every push appends its
\* entry and leaves the array before it, and every position, as it was
Stays(w, h, y, i) ==
    IF i <= Len(y)
    THEN \E w1 \in {push(w, h, y[i])} :
             /\ iter(w1, h) = Append(iter(w, h), y[i])
             /\ getpos(w1, y[i], h) = len(w, h)
             /\ \A k \in 0 .. len(w, h) - 1 :
                    getpos(w1, at(w, h, k), h) = getpos(w, at(w, h, k), h)
             /\ Stays(w1, h, y, i + 1)
    ELSE /\ iter(w, h) = y
         /\ \A k \in 0 .. len(w, h) - 1 : getpos(w, at(w, h, k), h) = k

\* for i in range(30): h.push(HVal(i)) into an empty min-heap, then
\* for i, e in enumerate(h): e.val == i
C18_Scenario ==
    LET ks == [i \in 1 .. 30 |-> i - 1]
        y == [i \in 1 .. 30 |-> i]
    IN  /\ Stays(Fresh(ks, TRUE), "A", y, 1)
        /\ \A i \in 0 .. 29 : ks[y[i + 1]] = i

\* the keys of heap h's array are non-decreasing along the array
Sorted(w, h) ==
    \A i \in 1 .. len(w, h) - 1 :
        w.val[at(w, h, i - 1)] <= w.val[at(w, h, i)]

\* ====================================================================
\* C18 Pushing entries whose keys are in non-decreasing order into an
\*     initially empty min-heap never moves any entry: after the pushes
\*     the entry at array index i is the i-th entry pushed (for keys
\*     0..29, iterating the heap gives heap[i].val == i), and iteration
\*     yields the entries in array-index order.
\*     Every list y of entries whose keys are non-decreasing, pushed in
\*     order into the emptied min-heap, gives the array y; and a push of
\*     a key not below the last key onto an array with non-decreasing
\*     keys appends the entry and moves nothing.
\* ====================================================================
C18_SortedPushesStay ==
    /\ is_min["A"] =>
           \A y \in Lists(World, "A") :
               (\A i \in 1 .. Len(y) - 1 : val[y[i]] <= val[y[i + 1]]) =>
                   LET w == pushall(heapify(World, "A", <<>>), "A", y, 1)
                   IN  /\ w.heap["A"] = y
                       /\ iter(w, "A") = y
                       /\ \A i \in DOMAIN y : getpos(w, y[i], "A") = i - 1
                       /\ Stays(heapify(World, "A", <<>>), "A", y, 1)
    /\ (is_min["A"] /\ Sorted(World, "A")) =>
           \A e \in Ents :
               (/\ Insertable(World, "A", e)
                /\ len(World, "A") > 0 => val[at(World, "A", len(World, "A") - 1)] <= val[e]) =>
                   LET w == push(World, "A", e)
                   IN  /\ w.heap["A"] = Append(heap["A"], e)
                       /\ getpos(w, e, "A") = len(World, "A")
                       /\ \A f \in Resident(World, "A") :
                              getpos(w, f, "A") = getpos(World, f, "A")
    /\ C18_Scenario

\* a push has just filled a min-heap whose array has non-decreasing keys,
\* an equal pair and a rising pair among them, every entry at the index
\* it was pushed at
C18_Witness ==
    /\ last = "push"
    /\ is_min["A"]
    /\ len(World, "A") = NEnt
    /\ Sorted(World, "A")
    /\ val[at(World, "A", 0)] = val[at(World, "A", 1)]
    /\ val[at(World, "A", 0)] < val[at(World, "A", NEnt - 1)]
    /\ PosConsistent(World, "A")

\* ====================================================================
\* C19 Remove's one-test dispatch: in remove(e) with e at index p that is
\*     not the last index, the displaced last element is risen from p
\*     (moved toward the root, _siftdown from p) exactly when it strictly
\*     precedes e in a min-heap or strictly follows e in a max-heap, and
\*     is sunk from p (moved toward the leaves) in every other case.
\*     Stated as claimed; on a max-heap remove does the opposite.
\* ====================================================================
C19_RemoveDispatch ==
    \A e \in Resident(World, "A") :
        LET p == getpos(World, e, "A")
            lastelt == at(World, "A", len(World, "A") - 1)
            w2 == droplast(setpos(World, e, "A", -1), "A")
            risen == _siftdown(w2, "A", 0, p, lastelt)
            sunk == _siftup(w2, "A", p, lastelt)
            ahead == IF is_min["A"] THEN val[lastelt] < val[e]
                                    ELSE val[lastelt] > val[e]
        IN  p < len(World, "A") - 1 =>
                remove(World, "A", e) = IF ahead THEN risen ELSE sunk

RECURSIVE OnPathToRoot(_, _)
\* index a is index i or one of its ancestors
OnPathToRoot(a, i) == a = i \/ (i > 0 /\ OnPathToRoot(a, (i - 1) \div 2))

\* the entries of heap h whose index differs between w0 and w
Moved(w0, w, h) ==
    {f \in Resident(w0, h) : getpos(w, f, h) # getpos(w0, f, h)}

\* ====================================================================
\* C20 Key-change dispatch moves the entry in one direction only: when
\*     the change aligns with the heap direction (decreased on a
\*     min-heap, increased on a max-heap) the entry's index never
\*     increases and only entries on the path from its index to the root
\*     change index; in the opposite case (increased on a min-heap,
\*     decreased on a max-heap) the entry's final index is never smaller
\*     than its starting index and only entries in the subtree rooted at
\*     its starting index change index.
\* ====================================================================
C20_KeyChangeOneDirection ==
    \A e \in Resident(World, "A") : \A v \in Keys : \A is_smaller \in BOOLEAN :
        ((v < val[e] => is_smaller) /\ (v > val[e] => ~ is_smaller)) =>
            LET w1 == [World EXCEPT !.val[e] = v]
                w == IF is_smaller THEN decreased(w1, "A", e)
                                   ELSE increased(w1, "A", e)
                p0 == getpos(World, e, "A")
                p == getpos(w, e, "A")
            IN  /\ Resident(w, "A") = Resident(World, "A")
                /\ PosConsistent(w, "A")
                /\ IF is_smaller = is_min["A"]
                   THEN /\ p <= p0
                        /\ OnPathToRoot(p, p0)
                        /\ \A f \in Moved(World, w, "A") :
                               /\ OnPathToRoot(getpos(World, f, "A"), p0)
                               /\ OnPathToRoot(getpos(w, f, "A"), p0)
                   ELSE /\ p >= p0
                        /\ OnPathToRoot(p0, p)
                        /\ \A f \in Moved(World, w, "A") :
                               /\ OnPathToRoot(p0, getpos(World, f, "A"))
                               /\ OnPathToRoot(p0, getpos(w, f, "A"))

\* increased() has just sunk an entry of a full min-heap: the root's key
\* is smaller than the key of the entry at the last index, which has the
\* largest key, and the heap is in heap order
C20_Witness ==
    /\ last = "increased"
    /\ is_min["A"]
    /\ len(World, "A") = NEnt
    /\ debug_assert(World, "A")
    /\ val[at(World, "A", 0)] < val[at(World, "A", NEnt - 1)]
    /\ \A f \in Resident(World, "A") : val[f] <= val[at(World, "A", NEnt - 1)]

\* heap order inside the subtree rooted at index r: no entry of the subtree
\* other than its root strictly precedes (min) / follows (max) its parent
SubtreeOrder(w, h, r) ==
    \A i \in 1 .. len(w, h) - 1 :
        OnPathToRoot(r, (i - 1) \div 2) =>
            IF w.is_min[h]
            THEN ~ (w.val[at(w, h, i)] < w.val[at(w, h, (i - 1) \div 2)])
            ELSE ~ (w.val[at(w, h, i)] > w.val[at(w, h, (i - 1) \div 2)])

RECURSIVE WinLeaf(_, _, _)
\* the leaf under index pos reached by stepping to the winning child: the
\* right child when it strictly precedes (min) / follows (max) the left
\* child, the left child otherwise
WinLeaf(w, h, pos) ==
    LET l == 2 * pos + 1
        r == 2 * pos + 2
    IN  IF ~ (l < len(w, h)) THEN pos
        ELSE IF r < len(w, h)
                /\ (IF w.is_min[h] THEN w.val[at(w, h, r)] < w.val[at(w, h, l)]
                                   ELSE w.val[at(w, h, r)] > w.val[at(w, h, l)])
        THEN WinLeaf(w, h, r)
        ELSE WinLeaf(w, h, l)

\* ====================================================================
\* C21 Sink (_siftup_min / _siftup_max at index pos): given that the
\*     subtrees rooted at both children of pos satisfy heap order, after
\*     the call the subtree rooted at pos satisfies heap order; the
\*     element first descends to a leaf by always moving the winning
\*     child up (smaller child for min, larger for max; the left child
\*     on a tie), then rises from that leaf with the rise bounded by pos,
\*     so the element originally at pos ends at an index inside that
\*     subtree and never above pos; array slots outside the subtree
\*     rooted at pos, and the positions of the entries in them, are
\*     unchanged.  The element at pos carries any key.
\* ====================================================================
C21_Sink ==
    \A pos \in 0 .. len(World, "A") - 1 : \A v \in Keys :
        LET e == at(World, "A", pos)
            w1 == [World EXCEPT !.val[e] = v]
            b == IF is_min["A"] THEN bubble_min(w1, "A", pos, len(w1, "A"))
                                ELSE bubble_max(w1, "A", pos, len(w1, "A"))
            w == IF is_min["A"] THEN _siftup_min(w1, "A", pos)
                                ELSE _siftup_max(w1, "A", pos)
            p == getpos(w, e, "A")
        IN  (SubtreeOrder(w1, "A", 2 * pos + 1) /\ SubtreeOrder(w1, "A", 2 * pos + 2)) =>
                /\ SubtreeOrder(w, "A", pos)
                /\ b.pos = WinLeaf(w1, "A", pos)
                /\ ~ (2 * b.pos + 1 < len(w1, "A"))
                /\ at(w, "A", p) = e
                /\ OnPathToRoot(pos, p)
                /\ OnPathToRoot(p, b.pos)
                /\ p >= pos
                /\ \A i \in 0 .. len(World, "A") - 1 :
                       ~ OnPathToRoot(pos, i) =>
                           /\ at(w, "A", i) = at(World, "A", i)
                           /\ getpos(w, at(World, "A", i), "A") =
                                  getpos(World, at(World, "A", i), "A")
                /\ Resident(w, "A") = Resident(World, "A")
                /\ w = _siftup_inplace(w1, "A", pos)

\* increased() has just sunk an entry of a full min-heap from index 0 to
\* the last index, below index 1: the entry there has the largest key,
\* the root a smaller one, and the heap is in heap order
C21_Witness ==
    /\ last = "increased"
    /\ is_min["A"]
    /\ len(World, "A") = NEnt
    /\ debug_assert(World, "A")
    /\ SubtreeOrder(World, "A", 0)
    /\ val[at(World, "A", 0)] < val[at(World, "A", NEnt - 1)]
    /\ val[at(World, "A", 1)] < val[at(World, "A", NEnt - 1)]
    /\ WinLeaf(World, "A", 0) = NEnt - 1

\* ====================================================================
\* C22 Rise is strict on ties and local: push(e) moves e from the new
\*     last index toward the root only past ancestors that e strictly
\*     precedes (min-heap) or strictly follows (max-heap); e never passes
\*     an ancestor whose key equals its own, e stops at the first
\*     ancestor that does not yield or at index 0, and array slots that
\*     are not on the path from the new last index to the root are
\*     unchanged.
\* ====================================================================
C22_RiseStrictLocal ==
    \A e \in Ents :
        Insertable(World, "A", e) =>
            LET n == len(World, "A")
                w == push(World, "A", e)
                p == getpos(w, e, "A")
                beats(f) == IF is_min["A"] THEN val[e] < val[f] ELSE val[e] > val[f]
            IN  /\ at(w, "A", p) = e
                /\ OnPathToRoot(p, n)
                /\ \A a \in 0 .. n - 1 :
                       (OnPathToRoot(a, n) /\ OnPathToRoot(p, a)) =>
                           /\ beats(at(World, "A", a))
                           /\ val[at(World, "A", a)] # val[e]
                           /\ \E c \in {2 * a + 1, 2 * a + 2} :
                                  /\ OnPathToRoot(c, n)
                                  /\ at(w, "A", c) = at(World, "A", a)
                                  /\ getpos(w, at(World, "A", a), "A") = c
                /\ p = 0 \/ ~ beats(at(World, "A", (p - 1) \div 2))
                /\ \A i \in 0 .. n - 1 :
                       (~ OnPathToRoot(i, n) \/ (i < p)) =>
                           /\ at(w, "A", i) = at(World, "A", i)
                           /\ getpos(w, at(World, "A", i), "A") =
                                  getpos(World, at(World, "A", i), "A")

\* a push has just filled a min-heap: the entry at index 1 has the key of
\* the root and a smaller key than the entry below it at the last index,
\* as when the pushed entry rose past its parent and stopped at a tie
\* with the root
C22_Witness ==
    /\ last = "push"
    /\ is_min["A"]
    /\ len(World, "A") = NEnt
    /\ val[at(World, "A", 1)] = val[at(World, "A", 0)]
    /\ val[at(World, "A", 1)] < val[at(World, "A", NEnt - 1)]
    /\ PosConsistent(World, "A")

\* ====================================================================
\* C23 heapify(x), ordering of steps: the positions of all elements of x
\*     are set to their indices before the first sink; sink is then
\*     invoked exactly once for each index from len(x) div 2 - 1 down to
\*     0, in strictly decreasing index order, and for no other index;
\*     lists of length 0 or 1 trigger no sink.
\* ====================================================================
C23_HeapifySteps ==
    \A x \in Lists(World, "A") :
        LET t == heapify_steps(World, "A", x)
            n == Len(x)
            sinks == {k \in DOMAIN t : t[k].op = "sink"}
            sets == {k \in DOMAIN t : t[k].op = "setpos"}
        IN  /\ heapify_run(World, "A", x, t, 1) = heapify(World, "A", x)
            /\ {t[k].i : k \in sets} = 0 .. n - 1
            /\ Cardinality(sets) = n
            /\ \A k \in sets : \A j \in sinks : k < j
            /\ \A k \in sets : \E j \in DOMAIN t : j < k /\ t[j].op = "install"
            /\ {t[k].i : k \in sinks} = 0 .. (n \div 2) - 1
            /\ Cardinality(sinks) = n \div 2
            /\ \A j, k \in sinks : j < k => t[j].i > t[k].i
            /\ n <= 1 => sinks = {}
            /\ \A k \in sinks :
                   LET before == heapify_run(World, "A", x, SubSeq(t, 1, k - 1), 1)
                   IN  \A i \in 0 .. n - 1 : getpos(before, x[i + 1], "A") \in 0 .. n - 1

\* heapify has just built a full max-heap, which took the sinks of index
\* 1 and then index 0; the entry at the root has a larger key than the
\* entry at the last index and the heap is in heap order
C23_Witness ==
    /\ last = "heapify"
    /\ ~ is_min["A"]
    /\ len(World, "A") = NEnt
    /\ debug_assert(World, "A")
    /\ val[at(World, "A", 0)] > val[at(World, "A", NEnt - 1)]
    /\ Len(sink_steps((len(World, "A") \div 2) - 1)) = 2

\* every entry other than e records what it recorded, for every heap
SamePositionsBut(w0, w, e) ==
    /\ \A f \in (DOMAIN w0.hpos) \ {e} : w.hpos[f] = w0.hpos[f]
    /\ \A f \in (DOMAIN w0.mpos) \ {e} : w.mpos[f] = w0.mpos[f]

\* ====================================================================
\* C24 Removing the physically last element needs no repair: pop() on a
\*     one-element heap, and remove(e) when e is at the last index (the
\*     one-element case included), delete that element and leave the
\*     array index and recorded position of every other resident entry
\*     unchanged.
\* ====================================================================
C24_LastElementNoRepair ==
    LET n == len(World, "A")
    IN  /\ n = 1 =>
               LET r == pop(World, "A")
               IN  /\ r.ret = at(World, "A", 0)
                   /\ r.w.heap["A"] = <<>>
                   /\ Absent(r.w, r.ret, "A")
                   /\ SamePositionsBut(World, r.w, r.ret)
        /\ n >= 1 =>
               LET e == at(World, "A", n - 1)
                   w == remove(World, "A", e)
               IN  /\ w.heap["A"] = SubSeq(heap["A"], 1, n - 1)
                   /\ e \notin Resident(w, "A")
                   /\ Absent(w, e, "A")
                   /\ SamePositionsBut(World, w, e)
                   /\ \A f \in Resident(w, "A") :
                          getpos(w, f, "A") = getpos(World, f, "A")
                   /\ w.val = val

\* remove has just taken an entry out of a max-heap that keeps all the
\* other entries at consistent indices; the entry taken out records no
\* position and its key is not above any key in the heap, as the entry at
\* the last index of a max-heap may be
C24_Witness ==
    /\ last = "remove"
    /\ ~ is_min["A"]
    /\ len(World, "A") = NEnt - 1
    /\ PosConsistent(World, "A")
    /\ debug_assert(World, "A")
    /\ \E e \in Ents :
           /\ e \notin Resident(World, "A")
           /\ Absent(World, e, "A")
           /\ \A f \in Resident(World, "A") : val[e] <= val[f]

\* a sequence of indices that strictly decreases / strictly increases
Falling(q) == \A k \in 1 .. Len(q) - 1 : q[k + 1] < q[k]

Climbing(q) == \A k \in 1 .. Len(q) - 1 : q[k + 1] > q[k]

\* ====================================================================
\* C25 Every public operation terminates: on a heap of n entries each of
\*     push, pop, remove, replace, pushpop, increased, decreased,
\*     heapify and debug_assert reaches its return (or raises) after
\*     finitely many steps, because the rise loop strictly decreases its
\*     index toward startpos and the sink loop strictly increases its
\*     index toward len.
\*     For every array, every entry and every pos with startpos, 0 or
\*     another ancestor of pos as in every call the code makes, the rise
\*     loop's index falls strictly and stays at or above startpos;
\*     for every pos the sink loop's index climbs strictly and stays
\*     below len and ends at a leaf, where the rise bounded by pos takes
\*     over; heapify takes one sink per index below len div 2; and
\*     debug_assert reads each index at most once.
\* ====================================================================
C25_Termination ==
    LET n == len(World, "A")
    IN  /\ \A e \in Ents : \A pos \in 0 .. n - 1 : \A startpos \in 0 .. pos :
               LET q == rise_path(World, "A", startpos, pos, e)
               IN  OnPathToRoot(startpos, pos) =>
                   /\ q[1] = pos
                   /\ Falling(q)
                   /\ \A k \in DOMAIN q : q[k] >= startpos
                   /\ Len(q) <= pos - startpos + 1
                   /\ getpos(_siftdown(World, "A", startpos, pos, e), e, "A") = q[Len(q)]
        /\ \A pos \in 0 .. n - 1 :
               LET q == sink_path(World, "A", pos, n)
                   b == IF is_min["A"] THEN bubble_min(World, "A", pos, n)
                                       ELSE bubble_max(World, "A", pos, n)
               IN  /\ q[1] = pos
                   /\ Climbing(q)
                   /\ \A k \in DOMAIN q : q[k] < n
                   /\ Len(q) <= n - pos
                   /\ q[Len(q)] = b.pos
                   /\ Len(rise_path(b.w, "A", pos, b.pos, at(World, "A", pos))) <= Len(q)
        /\ \A x \in Lists(World, "A") :
               Len(heapify_steps(World, "A", x)) = n + 1 + Len(x) + (Len(x) \div 2)
        /\ LET r == debug_assert_call(World, "A")
           IN  /\ Len(r.vis) <= n
               /\ \A j, k \in DOMAIN r.vis : j # k => r.vis[j] # r.vis[k]

\* a pop has just left a heap of three entries; an entry outside it
\* strictly precedes every resident entry, so pushing it runs the rise
\* loop from the last index through index 1 to the root, and the sink
\* loop from the root runs to index 1
C25_Witness ==
    /\ last = "pop"
    /\ is_min["A"]
    /\ len(World, "A") = NEnt - 1
    /\ \E e \in Ents :
           /\ Insertable(World, "A", e)
           /\ rise_path(append(World, "A", e), "A", 0, NEnt - 1, e) = <<3, 1, 0>>
    /\ sink_path(World, "A", 0, len(World, "A")) = <<0, 1>>

\* ====================================================================
\* C26 A single-heap entry (HVal) keeps one position field that ignores
\*     which heap asks: if an HVal resident in heap A is also pushed into
\*     heap B, B's write overwrites the position A recorded, so position
\*     consistency is guaranteed for at most the heap that wrote last;
\*     only MultiHVal entries may be resident in more than one heap with
\*     both heaps position-consistent.
\* ====================================================================
C26_SinglePositionField ==
    \A g \in Heaps : \A h \in Heaps \ {g} :
        /\ \A e \in HEnts :
               (e \in Resident(World, g) /\ e \notin Resident(World, h)) =>
                   LET w == push(World, h, e)
                   IN  /\ getpos(w, e, g) = getpos(w, e, h)
                       /\ getpos(w, e, h) \in 0 .. len(w, h) - 1
                       /\ at(w, h, getpos(w, e, h)) = e
                       /\ PosConsistent(w, h)
                       /\ PosConsistent(w, g) <=> getpos(w, e, h) = getpos(World, e, g)
                       /\ debug_assert(w, g) =>
                              getpos(w, e, h) = getpos(World, e, g)
                       /\ e \in Resident(w, g) /\ e \in Resident(w, h)
        /\ \A e \in MEnts :
               (e \in Resident(World, g) /\ e \notin Resident(World, h)) =>
                   LET w == push(World, h, e)
                   IN  /\ PosConsistent(w, h)
                       /\ PosConsistent(w, g)
                       /\ getpos(w, e, g) = getpos(World, e, g)
                       /\ at(w, h, getpos(w, e, h)) = e
                       /\ e \in Resident(w, g) /\ e \in Resident(w, h)

\* a push has just put a third entry into heap A: the HVal entry 3 is at
\* an index of A that differs from the index it would get in heap B, and
\* the MultiHVal entry 4 is in A and not in B
C26_Witness ==
    /\ last = "push"
    /\ len(World, "A") = NEnt - 1
    /\ 3 \in Resident(World, "A")
    /\ 4 \in Resident(World, "A") /\ 4 \notin Resident(World, "B")
    /\ getpos(push(World, "B", 3), 3, "B") # getpos(World, 3, "A")
    /\ ~ PosConsistent(push(World, "B", 3), "A")
    /\ PosConsistent(push(World, "B", 4), "A")

\* ====================================================================
\* C27 Content preservation: provided callers never push, replace with
\*     or heapify an entry that is already resident in the same heap,
\*     after any sequence of operations every resident entry occupies
\*     exactly one array index (no entry is duplicated or lost by a
\*     sift), and the set of resident entries changes only as the
\*     operation names: push adds exactly its argument, pop and remove
\*     take out exactly one entry, replace exchanges the root for its
\*     argument, and increased/decreased only permute.
\* ====================================================================
C27_ContentPreservation ==
    LET R == Resident(World, "A")
        n == len(World, "A")
        once(w) == w.heap["A"] \in Distinct
    IN  /\ heap["A"] \in Distinct
        /\ Cardinality(R) = n
        /\ \A e \in Ents :
               Insertable(World, "A", e) =>
                   /\ LET w == push(World, "A", e)
                      IN  /\ once(w)
                          /\ Resident(w, "A") = R \cup {e}
                          /\ len(w, "A") = n + 1
                   /\ n > 0 =>
                          LET r == replace(World, "A", e)
                          IN  /\ once(r.w)
                              /\ r.ret = at(World, "A", 0)
                              /\ Resident(r.w, "A") = (R \ {r.ret}) \cup {e}
                              /\ len(r.w, "A") = n
                   /\ LET r == pushpop(World, "A", e)
                      IN  /\ once(r.w)
                          /\ Resident(r.w, "A") = (R \cup {e}) \ {r.ret}
                          /\ r.ret \in R \cup {e}
        /\ n > 0 =>
               LET r == pop(World, "A")
               IN  /\ once(r.w)
                   /\ r.ret \in R
                   /\ Resident(r.w, "A") = R \ {r.ret}
                   /\ len(r.w, "A") = n - 1
        /\ \A e \in R :
               /\ LET w == remove(World, "A", e)
                  IN  /\ once(w)
                      /\ Resident(w, "A") = R \ {e}
                      /\ len(w, "A") = n - 1
               /\ \A v \in Keys : \A is_smaller \in BOOLEAN :
                      ((v < val[e] => is_smaller) /\ (v > val[e] => ~ is_smaller)) =>
                          LET w == fix_after_delta([World EXCEPT !.val[e] = v],
                                                   "A", e, is_smaller)
                          IN  /\ once(w)
                              /\ Resident(w, "A") = R
                              /\ len(w, "A") = n
        /\ \A x \in Lists(World, "A") :
               LET w == heapify(World, "A", x)
               IN  /\ once(w)
                   /\ Resident(w, "A") = {x[i] : i \in DOMAIN x}
                   /\ len(w, "A") = Len(x)

\* remove has just taken an entry out of the middle of a max-heap, the
\* displaced last entry was sifted, and the three entries left are each
\* at one index; the entry outside has a larger key than the root
C27_Witness ==
    /\ last = "remove"
    /\ ~ is_min["A"]
    /\ len(World, "A") = NEnt - 1
    /\ Cardinality(Resident(World, "A")) = NEnt - 1
    /\ \E e \in Ents :
           /\ e \notin Resident(World, "A")
           /\ val[e] > val[at(World, "A", 0)]

\* the same heap object with the other direction and every key negated
Mirror(w) ==
    [w EXCEPT !.is_min["A"] = ~ w.is_min["A"],
              !.val = [e \in DOMAIN w.val |-> - w.val[e]]]

\* the array and the recorded positions of two worlds agree
SameArray(w1, w2) ==
    /\ w1.heap = w2.heap
    /\ w1.hpos = w2.hpos
    /\ w1.mpos = w2.mpos

\* one operation other than remove, run on the heap and on its mirror,
\* leaves the same array and returns the same entry
C28_MirrorButRemove ==
    /\ \A e \in Ents :
           Insertable(World, "A", e) =>
               /\ SameArray(push(World, "A", e), push(Mirror(World), "A", e))
               /\ len(World, "A") > 0 =>
                      /\ SameArray(replace(World, "A", e).w,
                                   replace(Mirror(World), "A", e).w)
                      /\ replace(World, "A", e).ret = replace(Mirror(World), "A", e).ret
               /\ SameArray(pushpop(World, "A", e).w, pushpop(Mirror(World), "A", e).w)
               /\ pushpop(World, "A", e).ret = pushpop(Mirror(World), "A", e).ret
    /\ len(World, "A") > 0 =>
           /\ SameArray(pop(World, "A").w, pop(Mirror(World), "A").w)
           /\ pop(World, "A").ret = pop(Mirror(World), "A").ret
    /\ \A x \in Lists(World, "A") :
           SameArray(heapify(World, "A", x), heapify(Mirror(World), "A", x))
    /\ \A e \in Resident(World, "A") : \A v \in Keys : \A is_smaller \in BOOLEAN :
           ((v < val[e] => is_smaller) /\ (v > val[e] => ~ is_smaller)) =>
               LET w1 == [World EXCEPT !.val[e] = v]
               IN  SameArray(fix_after_delta(w1, "A", e, is_smaller),
                             fix_after_delta(Mirror(w1), "A", e, ~ is_smaller))

\* ====================================================================
\* C28 Max-heap mirrors min-heap: running the same sequence of operations
\*     (push, pop, remove, replace, pushpop, heapify, key change with the
\*     mirrored direction) on a max-heap over keys k and on a min-heap
\*     over the negated keys -k keeps the two arrays equal index by index
\*     (same entry at every index) and returns the same entries from pop,
\*     replace and pushpop at every step.  Step by step: from equal
\*     arrays, each operation leaves equal arrays.
\*     Stated as claimed; remove on the max-heap leaves another array
\*     than remove on the mirrored min-heap.
\* ====================================================================
C28_MaxMirrorsMin ==
    /\ C28_MirrorButRemove
    /\ \A e \in Resident(World, "A") :
           SameArray(remove(World, "A", e), remove(Mirror(World), "A", e))

\* the position entry e records for heap g, -1 where its dictionary has no
\* key for g
KeyFor(w, e, g) == IF g \in DOMAIN w.mpos[e] THEN w.mpos[e][g] ELSE -1

\* what heap g and the entries' records for g look like
ViewOf(w, g) == <<w.heap[g], w.hpos, [e \in DOMAIN w.mpos |-> KeyFor(w, e, g)]>>

\* every MultiHVal has lost the position it recorded for heap g
Forget(w, g) ==
    [w EXCEPT !.mpos = [e \in DOMAIN w.mpos |->
                           [k \in (DOMAIN w.mpos[e]) \ {g} |-> w.mpos[e][k]]]]

\* every call of a public operation on heap h, with the world it leaves
CallsOn(w, h) ==
    {<<"push", e, push(w, h, e)>> : e \in {e \in Ents : Insertable(w, h, e)}}
    \cup {<<"pop", 0, pop(w, h).w>> : i \in {i \in {0} : len(w, h) > 0}}
    \cup {<<"remove", e, remove(w, h, e)>> : e \in Resident(w, h)}
    \cup {<<"replace", e, replace(w, h, e).w>> :
             e \in {e \in Ents : len(w, h) > 0 /\ Insertable(w, h, e)}}
    \cup {<<"pushpop", e, pushpop(w, h, e).w>> :
             e \in {e \in Ents : Insertable(w, h, e)}}
    \cup {<<"heapify", x, heapify(w, h, x)>> : x \in Lists(w, h)}
    \cup {<<"key change", <<e, v>>,
            fix_after_delta([w EXCEPT !.val[e] = v], h, e, v < w.val[e])>> :
             e \in Resident(w, h), v \in Keys}

\* ====================================================================
\* C29 Heaps are told apart by object identity, not by name: two
\*     distinct Heap instances constructed with the same name string
\*     hold separate position keys in a shared MultiHVal, so an
\*     operation on one never reads, overwrites or deletes the position
\*     the entry records for the other.  For heaps A and B of one name
\*     that share the MultiHVal entries: every operation on A leaves B's
\*     array and every position recorded for B as they were, and leaves
\*     A and the positions recorded for A the same whether or not the
\*     entries hold a position for B.
\* ====================================================================
C29_IdentityNotName ==
    name["A"] = name["B"] =>
        /\ \A c \in CallsOn(World, "A") :
               /\ c[3].heap["B"] = heap["B"]
               /\ \A e \in MEnts : KeyFor(c[3], e, "B") = KeyFor(World, e, "B")
        /\ {<<c[1], c[2], ViewOf(c[3], "A")>> : c \in CallsOn(World, "A")}
               = {<<c[1], c[2], ViewOf(c[3], "A")>> :
                     c \in CallsOn(Forget(World, "B"), "A")}

\* an operation has just run on A; a MultiHVal is resident in both heaps of
\* the one name, at different indices, each recorded under its own heap
C29_Witness ==
    /\ name["A"] = name["B"]
    /\ last \in {"push", "pop", "remove", "replace", "pushpop", "heapify"}
    /\ \E e \in MEnts :
           /\ e \in Resident(World, "A") \cap Resident(World, "B")
           /\ KeyFor(World, e, "A") # KeyFor(World, e, "B")
           /\ at(World, "A", KeyFor(World, e, "A")) = e
           /\ at(World, "B", KeyFor(World, e, "B")) = e

\* ====================================================================
\* C30 A key-change call on an entry whose key did not actually change
\*     is harmless: increased(e) or decreased(e) on a valid heap with
\*     e's key unmodified leaves heap order and position consistency
\*     holding, and when all resident keys are distinct it leaves the
\*     array exactly as it was (with duplicate keys, e may only trade
\*     places with entries of equal key).
\* ====================================================================
C30_UnchangedKeyHarmless ==
    (debug_assert(World, "A") /\ PosConsistent(World, "A")) =>
        \A e \in Resident(World, "A") :
        \A w \in {increased(World, "A", e), decreased(World, "A", e)} :
            /\ HeapOrder(w, "A")
            /\ debug_assert(w, "A")
            /\ PosConsistent(w, "A")
            /\ Resident(w, "A") = Resident(World, "A")
            /\ w.val = val
            /\ (\A i, j \in DOMAIN heap["A"] :
                    i # j => val[heap["A"][i]] # val[heap["A"][j]])
                   => w.heap["A"] = heap["A"]
            /\ \A i \in DOMAIN heap["A"] :
                   w.heap["A"][i] # heap["A"][i] =>
                       /\ val[w.heap["A"][i]] = val[e]
                       /\ val[heap["A"][i]] = val[e]

\* a key change has just run on a full valid heap A whose keys are not all
\* equal, and a further call with the key unmodified moves an entry below
\* entries of its own key
C30_Witness ==
    /\ last \in {"increased", "decreased"}
    /\ len(World, "A") = NEnt
    /\ debug_assert(World, "A")
    /\ \E i, j \in Ents : val[i] # val[j]
    /\ \E e \in Resident(World, "A") :
       \E w \in {increased(World, "A", e), decreased(World, "A", e)} :
           /\ w.heap["A"] # heap["A"]
           /\ getpos(w, e, "A") > getpos(World, e, "A")

====
